---- MODULE Spec2Model ----
(***************************************************************************)
(* Model of the two services of satellite_qa_using_gemini:                 *)
(*   - the Inspection Service (satellite_qa_agent/main.py, FastAPI):       *)
(*     POST /analyze -> SatelliteInspector.analyze_from_uri -> json.loads  *)
(*     -> response_model=SatelliteAnalysis;                                *)
(*   - the Upload Front-End (satellite_qa_agent_app/main.py, Flask):       *)
(*     POST /upload -> for each file: store blob, make public, POST to the *)
(*     Inspection Service, append the result; render the page.             *)
(* The hosted model, object storage and the network are external: what     *)
(* they return or raise is a nondeterministic choice.                      *)
(***************************************************************************)
EXTENDS Integers, Sequences, FiniteSets, TLC

\* ------------------------------------------------------------------ bounds
MaxFiles    == 2   \* files carried by one /upload request
MaxRequests == 1   \* /upload requests handled in one behaviour

\* --------------------------------------------------------------- constants
GCS_BUCKET_NAME == "your-unique-bucket-name"
CLOUD_RUN_URL   == "https://satellite-inspector-tool-90805393985.us-central1.run.app/analyze"

\* Filenames a form part can carry: the empty one (no file selected) and a name.
FileNames == {"", "a.jpg"}

\* Exceptions the externals can raise (str(e) of each).
StorageErrors == {"403 Forbidden"}
NetworkErrors == {"ConnectionError"}
ModelErrors   == {"404 Not Found"}
JSONDecodeError == "Expecting value: line 1 column 1 (char 0)"

\* ------------------------------------------------------------- JSON values
\* A JSON value is a tagged record; numbers are kept in tenths (9 = 0.9).
JNull    == [t |-> "null"]
JBool(b) == [t |-> "bool", b |-> b]
JNum(n)  == [t |-> "num", n |-> n]
JStr(s)  == [t |-> "str", s |-> s]
JArr(q)  == [t |-> "arr", a |-> q]
JObj(f)  == [t |-> "obj", o |-> f]

\* The four fields of SatelliteAnalysis and the three of IssueAssessment.
Categories == {"has_clouds", "has_snow", "has_color_issues", "has_other_issues"}
Fields     == {"detected", "confidence", "reason"}

\* pydantic (lax mode) bool: a bool, the numbers 0 and 1, or one of the
\* accepted spellings.
BoolTrueStrs  == {"1", "on", "t", "true", "y", "yes"}
BoolFalseStrs == {"0", "off", "f", "false", "n", "no"}
ValidBool(v) ==
    \/ v.t = "bool"
    \/ v.t = "num" /\ v.n \in {0, 10}
    \/ v.t = "str" /\ v.s \in (BoolTrueStrs \cup BoolFalseStrs)
ToBool(v) ==
    IF v.t = "bool" THEN v.b
    ELSE IF v.t = "num" THEN v.n = 10
    ELSE v.s \in BoolTrueStrs

\* pydantic (lax mode) float: any number (no ge/le on the field), a bool, or
\* a numeric string.  NumericStrs lists the numeric strings of the model's
\* universe with their value in tenths.
NumericStrs == {<<"0.5", 5>>}
ValidFloat(v) ==
    \/ v.t = "num"
    \/ v.t = "bool"
    \/ v.t = "str" /\ \E p \in NumericStrs : p[1] = v.s
ToFloat(v) ==
    IF v.t = "num" THEN v.n
    ELSE IF v.t = "bool" THEN (IF v.b THEN 10 ELSE 0)
    ELSE (CHOOSE p \in NumericStrs : p[1] = v.s)[2]

\* pydantic str: a string, of any length.
ValidStr(v) == v.t = "str"

\* IssueAssessment: the three fields are required, others are ignored.
IssueAssessment(v) ==
    /\ v.t = "obj"
    /\ Fields \subseteq DOMAIN v.o
    /\ ValidBool(v.o["detected"])
    /\ ValidFloat(v.o["confidence"])
    /\ ValidStr(v.o["reason"])

\* SatelliteAnalysis: the four categories are required, others are ignored.
SatelliteAnalysis(v) ==
    /\ v.t = "obj"
    /\ Categories \subseteq DOMAIN v.o
    /\ \A k \in Categories : IssueAssessment(v.o[k])

\* Serialisation of a validated value: only the declared fields, coerced.
DumpAssessment(v) ==
    JObj([detected   |-> JBool(ToBool(v.o["detected"])),
          confidence |-> JNum(ToFloat(v.o["confidence"])),
          reason     |-> v.o["reason"]])
DumpAnalysis(v) == JObj([k \in Categories |-> DumpAssessment(v.o[k])])

\* ------------------------------------------------- texts the model returns
Assess(d, c, r) == JObj([detected |-> d, confidence |-> c, reason |-> r])
Good   == Assess(JBool(TRUE), JNum(9), JStr("white opaque texture"))
Other  == Assess(JBool(FALSE), JNum(2), JStr("no voids"))
AllOf(a) == [k \in Categories |-> IF k = "has_clouds" THEN a ELSE Other]

\* A text is well-formed JSON standing for a value, or it is not JSON.
Text(v)  == [wf |-> TRUE, val |-> v]
Garbage  == [wf |-> FALSE, val |-> JNull]

TextFull       == Text(JObj(AllOf(Good)))
\* one of the four categories is missing
TextNoSnow     == Text(JObj([k \in Categories \ {"has_snow"} |-> Good]))
\* an undeclared key, and values pydantic coerces (1 -> true, "0.5" -> 0.5)
TextExtra      == Text(JObj([k \in Categories \cup {"notes"} |->
                              IF k = "notes" THEN JStr("n/a")
                              ELSE Assess(JNum(10), JStr("0.5"), JStr("haze"))]))
\* a confidence of 1.5 and an empty reason
TextOutOfRange == Text(JObj(AllOf(Assess(JBool(TRUE), JNum(15), JStr("")))))
\* a flag that is not a boolean
TextNullFlag   == Text(JObj(AllOf(Assess(JNull, JNum(9), JStr("haze")))))
\* well-formed JSON that is not an object
TextList       == Text(JArr(<<>>))

ModelTexts == {TextFull, TextNoSnow, TextExtra, TextOutOfRange, TextNullFlag,
               TextList, Garbage}

\* ------------------------------------------------------------ HTTP replies
NoResponse == [status |-> 0, ctype |-> "none", json |-> JNull, text |-> ""]
JsonResponse(code, v) == [status |-> code, ctype |-> "json", json |-> v, text |-> ""]
TextResponse(code, s) == [status |-> code, ctype |-> "text", json |-> JNull, text |-> s]

\* raise HTTPException(status_code=500, detail=str(e))
HTTPException(code, detail) == JsonResponse(code, JObj([detail |-> JStr(detail)]))

\* Variant: the endpoint without a response model, returning the parsed dict.
ResponseModel_Unvalidated(result_data) == JsonResponse(200, result_data)

\* FastAPI applies response_model to what the handler returned: a value that
\* validates is serialised, any other raises ResponseValidationError outside
\* the handler's try block, which the server answers with a bare 500.
ResponseModel(result_data) ==
    IF SatelliteAnalysis(result_data)
    THEN JsonResponse(200, DumpAnalysis(result_data))
    ELSE TextResponse(500, "Internal Server Error")

\* ---------------------------------------------------------- object storage
\* f"uploads/{uuid.uuid4()}-{file.filename}"
BlobName(u, name) == [prefix |-> "uploads/", uuid |-> u, name |-> name]
NoName == [prefix |-> "", uuid |-> 0, name |-> ""]
\* f"gs://{GCS_BUCKET_NAME}/{filename}"
GcsUri(bucket, key) == [scheme |-> "gs", bucket |-> bucket, key |-> key]
\* blob.public_url
PublicUrl(bucket, key) ==
    [scheme |-> "https", host |-> "storage.googleapis.com",
     bucket |-> bucket, key |-> key]

VARIABLES
    debug,           \* whether the Flask app runs with debug=True
    storage,         \* the bucket: blob name -> [stream, public]
    uuids,           \* number of uuid4() values drawn so far
    reqNo,           \* number of /upload requests received
    upPc,            \* position of the /upload handler
    uploaded_files,  \* request.files.getlist("files")
    idx,             \* position of `file` in uploaded_files
    filename,        \* blob name of the current iteration
    response,        \* what requests.post returned in the current iteration
    results,         \* the handler's results list
    upResp,          \* the reply of /upload
    upErr,           \* [at, err]: the exception that left the handler
    names,           \* blob names generated by this request, per file
    posted,          \* log of the POSTs this request sent to CLOUD_RUN_URL
    replies,         \* log of the replies to them
    an               \* the /analyze handler serving the front-end's POST

vars == <<debug, storage, uuids, reqNo, upPc, uploaded_files, idx,
          filename, response, results, upResp, upErr, names, posted, replies, an>>

NoErr == [at |-> 0, err |-> ""]

AnIdle == [pc |-> "idle", gcs_uri |-> GcsUri("", NoName), calls |-> 0,
           result_json_str |-> Garbage, result_data |-> JNull, raised |-> FALSE,
           err |-> "", resp |-> NoResponse]

Init ==
    /\ debug \in BOOLEAN
    /\ storage = <<>>
    /\ uuids = 0
    /\ reqNo = 0
    /\ upPc = "idle"
    /\ uploaded_files = <<>>
    /\ idx = 0
    /\ filename = NoName
    /\ response = NoResponse
    /\ results = <<>>
    /\ upResp = NoResponse
    /\ upErr = NoErr
    /\ names = <<>>
    /\ posted = <<>>
    /\ replies = <<>>
    /\ an = AnIdle


\* ====================================================== Inspection Service
\* POST /analyze with body {"gcs_uri": uri} enters analyze_endpoint.
Receive(uri) == [AnIdle EXCEPT !.pc = "generate", !.gcs_uri = uri]

\* agent.analyze_from_uri(request.gcs_uri): Part.from_uri, then one call of
\* model.generate_content; response.text is returned, or the call raises.
AnalyzeGenerate ==
    /\ an.pc = "generate"
    /\ \/ \E text \in ModelTexts :
            an' = [an EXCEPT !.calls = @ + 1,
                             !.result_json_str = text,
                             !.pc = "parse"]
       \/ \E e \in ModelErrors :
            an' = [an EXCEPT !.calls = @ + 1,
                             !.raised = TRUE,
                             !.err = e,
                             !.pc = "except"]
    /\ UNCHANGED <<debug, storage, uuids, reqNo, upPc, uploaded_files,
                   idx, filename, response, results, upResp, upErr, names,
                   posted, replies>>

\* result_data = json.loads(result_json_str)
AnalyzeParse ==
    /\ an.pc = "parse"
    /\ IF an.result_json_str.wf
       THEN an' = [an EXCEPT !.result_data = an.result_json_str.val,
                             !.pc = "return"]
       ELSE an' = [an EXCEPT !.err = JSONDecodeError,
                             !.pc = "except"]
    /\ UNCHANGED <<debug, storage, uuids, reqNo, upPc, uploaded_files,
                   idx, filename, response, results, upResp, upErr, names,
                   posted, replies>>

\* return result_data, through response_model=SatelliteAnalysis
AnalyzeReturn ==
    /\ an.pc = "return"
    /\ an' = [an EXCEPT !.resp = ResponseModel(an.result_data),
                        !.pc = "responded"]
    /\ UNCHANGED <<debug, storage, uuids, reqNo, upPc, uploaded_files,
                   idx, filename, response, results, upResp, upErr, names,
                   posted, replies>>

\* Variant: the except branch calls the model again instead of failing.
AnalyzeExcept_Retry ==
    /\ an.pc = "except"
    /\ an' = [an EXCEPT !.pc = "generate"]
    /\ UNCHANGED <<debug, storage, uuids, reqNo, upPc, uploaded_files,
                   idx, filename, response, results, upResp, upErr, names,
                   posted, replies>>

\* except Exception as e: raise HTTPException(status_code=500, detail=str(e))
AnalyzeExcept ==
    /\ an.pc = "except"
    /\ an' = [an EXCEPT !.resp = HTTPException(500, an.err),
                        !.pc = "responded"]
    /\ UNCHANGED <<debug, storage, uuids, reqNo, upPc, uploaded_files,
                   idx, filename, response, results, upResp, upErr, names,
                   posted, replies>>

\* ========================================================= Upload Front-End
NoReply == [status |-> 0, kind |-> "none", text |-> "", results |-> <<>>]

\* return "No files selected", 400
BadRequest == [status |-> 400, kind |-> "text", text |-> "No files selected",
               results |-> <<>>]

\* render_template_string(HTML_TEMPLATE, results=results)
RenderTemplate(rs) == [status |-> 200, kind |-> "page", text |-> "", results |-> rs]

\* An exception leaving the view function: Flask answers 500; the page shows
\* the exception only when the app runs in debug mode.
FlaskError(dbg, e) ==
    IF dbg
    THEN [status |-> 500, kind |-> "debugger", text |-> e, results |-> <<>>]
    ELSE [status |-> 500, kind |-> "text", text |-> "Internal Server Error",
          results |-> <<>>]

\* The i-th form part: its filename and its stream.
FilePart(r, i, name) == [filename |-> name, stream |-> [req |-> r, pos |-> i]]

\* uploaded_files = request.files.getlist("files"); results = []
UploadRequest ==
    /\ upPc \in {"idle", "done"}
    /\ reqNo < MaxRequests
    /\ \E n \in 0..MaxFiles : \E fn \in [1..n -> FileNames] :
         uploaded_files' = [i \in 1..n |-> FilePart(reqNo + 1, i, fn[i])]
    /\ reqNo' = reqNo + 1
    /\ results' = <<>>
    /\ idx' = 0
    /\ filename' = NoName
    /\ response' = NoResponse
    /\ upResp' = NoReply
    /\ upErr' = NoErr
    /\ names' = <<>>
    /\ posted' = <<>>
    /\ replies' = <<>>
    /\ upPc' = "check"
    /\ UNCHANGED <<debug, storage, uuids, an>>

\* Variant: only the empty list is rejected.
NoFilesSelected_ListOnly(files) == files = <<>>

\* Variant: every filename is examined.
NoFilesSelected_AnyUnnamed(files) ==
    files = <<>> \/ \E i \in DOMAIN files : files[i].filename = ""

\* not uploaded_files or uploaded_files[0].filename == ''
NoFilesSelected(files) == files = <<>> \/ files[1].filename = ""

UploadCheck ==
    /\ upPc = "check"
    /\ IF NoFilesSelected(uploaded_files)
       THEN upResp' = BadRequest /\ upPc' = "done"
       ELSE upResp' = upResp /\ upPc' = "loop"
    /\ UNCHANGED <<debug, storage, uuids, reqNo, uploaded_files, idx,
                   filename, response, results, upErr, names, posted, replies, an>>

\* for file in uploaded_files: filename = f"uploads/{uuid.uuid4()}-{file.filename}"
\* uuid4() is modelled as a value never drawn before.
UploadLoop ==
    /\ upPc = "loop"
    /\ IF idx < Len(uploaded_files)
       THEN /\ idx' = idx + 1
            /\ uuids' = uuids + 1
            /\ filename' = BlobName(uuids + 1, uploaded_files[idx + 1].filename)
            /\ names' = Append(names, filename')
            /\ upPc' = "store"
       ELSE /\ upPc' = "render"
            /\ UNCHANGED <<idx, uuids, filename, names>>
    /\ UNCHANGED <<debug, storage, reqNo, uploaded_files, response,
                   results, upResp, upErr, posted, replies, an>>

\* An exception raised in the view function is not caught there.
Raise(e) ==
    /\ upErr' = [at |-> idx, err |-> e]
    /\ upResp' = FlaskError(debug, e)
    /\ upPc' = "done"

\* Variant: the blob is posted without having been made public.
UploadFromFile_SkipPublic ==
    /\ upPc = "store"
    /\ \/ /\ storage' = (filename :> [stream |-> uploaded_files[idx].stream,
                                      public |-> FALSE]) @@ storage
          /\ upPc' = "post"
          /\ UNCHANGED <<upErr, upResp>>
       \/ /\ \E e \in StorageErrors : Raise(e)
          /\ UNCHANGED storage
    /\ UNCHANGED <<debug, uuids, reqNo, uploaded_files, idx, filename,
                   response, results, names, posted, replies, an>>

\* blob.upload_from_file(file.stream, content_type=file.content_type)
UploadFromFile ==
    /\ upPc = "store"
    /\ \/ /\ storage' = (filename :> [stream |-> uploaded_files[idx].stream,
                                      public |-> FALSE]) @@ storage
          /\ upPc' = "public"
          /\ UNCHANGED <<upErr, upResp>>
       \/ /\ \E e \in StorageErrors : Raise(e)
          /\ UNCHANGED storage
    /\ UNCHANGED <<debug, uuids, reqNo, uploaded_files, idx, filename,
                   response, results, names, posted, replies, an>>

\* Variant: a failed make_public deletes the blob just written.
MakePublic_Rollback ==
    /\ upPc = "public"
    /\ \/ /\ storage' = [storage EXCEPT ![filename].public = TRUE]
          /\ upPc' = "post"
          /\ UNCHANGED <<upErr, upResp>>
       \/ /\ \E e \in StorageErrors : Raise(e)
          /\ storage' = [k \in DOMAIN storage \ {filename} |-> storage[k]]
    /\ UNCHANGED <<debug, uuids, reqNo, uploaded_files, idx, filename,
                   response, results, names, posted, replies, an>>

\* blob.make_public()
MakePublic ==
    /\ upPc = "public"
    /\ \/ /\ storage' = [storage EXCEPT ![filename].public = TRUE]
          /\ upPc' = "post"
          /\ UNCHANGED <<upErr, upResp>>
       \/ /\ \E e \in StorageErrors : Raise(e)
          /\ UNCHANGED storage
    /\ UNCHANGED <<debug, uuids, reqNo, uploaded_files, idx, filename,
                   response, results, names, posted, replies, an>>

\* gcs_uri = f"gs://{GCS_BUCKET_NAME}/{filename}"
\* response = requests.post(CLOUD_RUN_URL, json={"gcs_uri": gcs_uri}): the
\* request reaches the Inspection Service, or the transport raises.
Post ==
    /\ upPc = "post"
    /\ posted' = Append(posted, [file |-> idx, url |-> CLOUD_RUN_URL,
                                 gcs_uri |-> GcsUri(GCS_BUCKET_NAME, filename)])
    /\ \/ /\ an' = Receive(GcsUri(GCS_BUCKET_NAME, filename))
          /\ upPc' = "wait"
          /\ UNCHANGED <<upErr, upResp>>
       \/ /\ \E e \in NetworkErrors : Raise(e)
          /\ UNCHANGED an
    /\ UNCHANGED <<debug, storage, uuids, reqNo, uploaded_files, idx,
                   filename, response, results, names, replies>>

\* The reply of the Inspection Service arrives; requests.post returns it
\* whatever its status code (there is no raise_for_status).
PostReturn ==
    /\ upPc = "wait"
    /\ an.pc = "responded"
    /\ response' = an.resp
    /\ replies' = Append(replies, [file |-> idx, status |-> an.resp.status])
    /\ an' = AnIdle
    /\ upPc' = "append"
    /\ UNCHANGED <<debug, storage, uuids, reqNo, uploaded_files, idx,
                   filename, results, upResp, upErr, names, posted>>

\* json.dumps(response.json(), indent=2): the parsed body, formatted.
JsonDumps(v) == [indent |-> 2, val |-> v]

\* Variant: the entry is put in front of the list.
AppendResult_Prepend(rs, entry) == <<entry>> \o rs

AppendResult(rs, entry) == Append(rs, entry)

\* results.append({"image_url": blob.public_url,
\*                 "analysis": json.dumps(response.json(), indent=2)})
\* response.json() raises when the body is not JSON.
UploadAppend ==
    /\ upPc = "append"
    /\ IF response.ctype = "json"
       THEN /\ results' = AppendResult(results,
                            [image_url |-> PublicUrl(GCS_BUCKET_NAME, filename),
                             analysis  |-> JsonDumps(response.json)])
            /\ upPc' = "loop"
            /\ UNCHANGED <<upErr, upResp>>
       ELSE /\ Raise(JSONDecodeError)
            /\ UNCHANGED results
    /\ UNCHANGED <<debug, storage, uuids, reqNo, uploaded_files, idx,
                   filename, response, names, posted, replies, an>>

\* return render_template_string(HTML_TEMPLATE, results=results)
UploadRender ==
    /\ upPc = "render"
    /\ upResp' = RenderTemplate(results)
    /\ upPc' = "done"
    /\ UNCHANGED <<debug, storage, uuids, reqNo, uploaded_files, idx,
                   filename, response, results, upErr, names, posted, replies, an>>

Next ==
    \/ AnalyzeGenerate
    \/ AnalyzeParse
    \/ AnalyzeReturn
    \/ AnalyzeExcept
    \/ UploadRequest
    \/ UploadCheck
    \/ UploadLoop
    \/ UploadFromFile
    \/ MakePublic
    \/ Post
    \/ PostReturn
    \/ UploadAppend
    \/ UploadRender

Spec == Init /\ [][Next]_vars

\* ================================================================ properties
Done      == upPc = "done"
N         == Len(uploaded_files)
Responded == an.pc = "responded"

\* The blob of the i-th file: stored under the name generated for it, with
\* that file's filename and stream.
BlobOf(i) ==
    /\ i \in DOMAIN names
    /\ names[i] \in DOMAIN storage
    /\ names[i].name = uploaded_files[i].filename
    /\ storage[names[i]].stream = uploaded_files[i].stream

\* Numbers (in tenths) within [0.0, 1.0].
UnitInterval == 0..10

\* C1: a page /upload renders for a request of N files holds exactly N result
\* entries, entry i showing the blob of the i-th submitted file; and a request
\* of N >= 1 files whose first file is named and in which no step raises does
\* end with such a page.
C1_NResultsInOrder ==
    Done =>
      /\ upResp.status = 200 =>
           /\ Len(upResp.results) = N
           /\ \A i \in 1..N :
                /\ upResp.results[i].image_url = PublicUrl(GCS_BUCKET_NAME, names[i])
                /\ BlobOf(i)
      /\ (N >= 1 /\ uploaded_files[1].filename # "" /\ upErr = NoErr) =>
           upResp.status = 200

C1_Witness ==
    /\ Done
    /\ N = 2
    /\ upResp.status = 200
    /\ Len(upResp.results) = 2
    /\ upResp.results[1].image_url # upResp.results[2].image_url

\* C2: a request carrying zero files (an empty list, or a single part with an
\* empty filename) is answered 400, never 5xx.
ZeroFiles == N = 0 \/ (N = 1 /\ uploaded_files[1].filename = "")

C2_ZeroFilesBadRequest ==
    (Done /\ ZeroFiles) => upResp.status = 400

C2_Witness ==
    /\ Done
    /\ N = 1
    /\ uploaded_files[1].filename = ""
    /\ upResp.status = 400

\* C3: when the model call raises, or its text is not JSON or lacks one of
\* the four categories, /analyze answers with a failure; a success response
\* never holds only some of the four assessments.
LacksCategory(text) ==
    text.wf /\ (text.val.t # "obj" \/ ~(Categories \subseteq DOMAIN text.val.o))

C3_FailureNeverPartial ==
    Responded =>
      /\ (an.raised \/ ~an.result_json_str.wf \/ LacksCategory(an.result_json_str))
            => an.resp.status >= 500
      /\ an.resp.status = 200 =>
            /\ an.resp.json.t = "obj"
            /\ Categories \subseteq DOMAIN an.resp.json.o

C3_Witness ==
    /\ Responded
    /\ an.result_json_str = TextNoSnow
    /\ an.resp.status = 500

\* C4 (as claimed): every success response of /analyze has exactly the four
\* keys, each with a boolean flag, a confidence within [0.0, 1.0] and a
\* non-empty reason, whatever the model returned.
C4_Original ==
    (Responded /\ an.resp.status = 200) =>
      /\ DOMAIN an.resp.json.o = Categories
      /\ \A k \in Categories :
           LET a == an.resp.json.o[k].o IN
             /\ a["detected"].t = "bool"
             /\ a["confidence"].t = "num"
             /\ a["confidence"].n \in UnitInterval
             /\ a["reason"].t = "str"
             /\ a["reason"].s # ""

\* C5 (as claimed): the first failure of a request (a storage write, the
\* make-public step, the POST, or a non-2xx answer of the Inspection Service)
\* aborts the rest: no later file is stored or posted, and no page listing
\* results is returned.
FailedAt ==
    ({upErr.at} \ {0})
      \cup {replies[j].file : j \in {j \in DOMAIN replies :
                                       replies[j].status \notin 200..299}}

C5_Original ==
    \A k \in FailedAt :
      /\ \A i \in DOMAIN names : i > k => names[i] \notin DOMAIN storage
      /\ \A j \in DOMAIN posted : posted[j].file <= k
      /\ upResp.status # 200

\* C6 (as claimed): in both services an exception raised by the model call or
\* by storage I/O is reported as a failure carrying the raw error text.
C6_Original ==
    /\ (Responded /\ an.raised) =>
          /\ an.resp.status = 500
          /\ an.resp.json = JObj([detail |-> JStr(an.err)])
    /\ (Done /\ upErr.err \in StorageErrors) =>
          /\ upResp.status = 500
          /\ upResp.text = upErr.err

\* C7: an /analyze request invokes the model at most once and an uploaded
\* file is posted to the Inspection Service at most once; a call that failed
\* is not retried, the request fails.
PostsOf(i) == {j \in DOMAIN posted : posted[j].file = i}

C7_NoRetry ==
    /\ an.calls <= 1
    /\ (Responded /\ an.raised) => (an.calls = 1 /\ an.resp.status = 500)
    /\ \A i \in 1..N : Cardinality(PostsOf(i)) <= 1
    /\ (Done /\ upErr.err \in NetworkErrors) =>
          (Cardinality(PostsOf(upErr.at)) = 1 /\ upResp.status = 500)

C7_Witness ==
    /\ Done
    /\ upErr.err \in NetworkErrors
    /\ upErr.at = 2
    /\ \E j \in DOMAIN replies : replies[j].file = 1 /\ replies[j].status = 500
    /\ Len(posted) = 2

\* C8: per file the order is store -> make public -> POST -> append; the
\* Inspection Service is only called with the location of a blob already
\* stored under that name and public; file i+1 is not written before the
\* call for file i has returned.
C8_Order ==
    /\ \A j \in DOMAIN posted :
         LET i == posted[j].file IN
           /\ posted[j].url = CLOUD_RUN_URL
           /\ posted[j].gcs_uri = GcsUri(GCS_BUCKET_NAME, names[i])
           /\ BlobOf(i)
           /\ storage[names[i]].public
    /\ an.pc # "idle" =>
         /\ an.gcs_uri.bucket = GCS_BUCKET_NAME
         /\ an.gcs_uri.key \in DOMAIN storage
         /\ storage[an.gcs_uri.key].public
    /\ \A i \in DOMAIN results :
         /\ \E j \in DOMAIN replies : replies[j].file = i
         /\ \E j \in DOMAIN posted : posted[j].file = i
    /\ \A j \in DOMAIN replies : \E m \in DOMAIN posted : posted[m].file = replies[j].file
    /\ \A i \in DOMAIN names :
         (i > 1 /\ names[i] \in DOMAIN storage) =>
            /\ \E j \in DOMAIN replies : replies[j].file = i - 1
            /\ Len(results) >= i - 1

C8_Witness ==
    /\ upPc = "wait"
    /\ idx = 2
    /\ an.pc = "generate"
    /\ an.gcs_uri = GcsUri(GCS_BUCKET_NAME, names[2])
    /\ storage[names[2]].public
    /\ Len(results) = 1

\* C9: storage is never rolled back: the request has written at least as many
\* blobs as it holds results, no step deletes a blob or withdraws its public
\* flag, and a request that failed at file k leaves the public blobs of files
\* 1..k-1 (and the blob of file k if it was written) in storage.
Written == {i \in DOMAIN names : names[i] \in DOMAIN storage}

C9_State ==
    /\ Cardinality(Written) >= Len(results)
    /\ (Done /\ upErr.at > 0) =>
          /\ upResp.results = <<>>
          /\ \A i \in 1..(upErr.at - 1) : BlobOf(i) /\ storage[names[i]].public

C9_Step ==
    /\ DOMAIN storage \subseteq DOMAIN storage'
    /\ \A k \in DOMAIN storage :
         /\ storage'[k].stream = storage[k].stream
         /\ storage[k].public => storage'[k].public

C9_NoRollback == [](C9_State) /\ [][C9_Step]_vars

C9_Witness ==
    /\ Done
    /\ upErr.at = 2
    /\ upResp.status = 500
    /\ BlobOf(1) /\ storage[names[1]].public
    /\ BlobOf(2) /\ ~storage[names[2]].public

\* C10: /upload answers 400 exactly when the list is empty or the first
\* filename is empty, before any storage write or POST; later filenames are
\* not examined: an unnamed file in a later position is stored and analysed.
Checked == upPc \notin {"idle", "check"}

C10_FirstFilenameOnly ==
    Checked =>
      /\ upResp.status = 400 <=> (N = 0 \/ uploaded_files[1].filename = "")
      /\ upResp.status = 400 =>
           /\ names = <<>> /\ posted = <<>>
           /\ \A k \in DOMAIN storage : storage[k].stream.req # reqNo
      /\ upResp.status = 200 =>
           \A i \in 1..N :
             /\ BlobOf(i) /\ storage[names[i]].public
             /\ PostsOf(i) # {}

C10_Witness ==
    /\ Done
    /\ N = 2
    /\ uploaded_files[2].filename = ""
    /\ upResp.status = 200
    /\ BlobOf(2)
    /\ PostsOf(2) # {}
====
